---- MODULE Spec2Model ----
(***************************************************************************)
(* A model of shopfiy_scraper.py: the flattener (flatten_dict), the field  *)
(* discovery (get_all_product_fields, get_all_variant_fields) and the      *)
(* script's run: sampling of page 1, header, and the streaming loop over   *)
(* the catalog's pages.                                                    *)
(*                                                                         *)
(* Python strings are sequences of one-character strings, so that          *)
(* concatenation, the separator and sorting are what they are in Python.   *)
(* Python values are tagged records: StrVal, IntVal, NoneVal, DictVal (an   *)
(* ordered sequence of <<key, value>> pairs, keys distinct) and ListVal.   *)
(***************************************************************************)
EXTENDS Integers, Sequences, FiniteSets, TLC

\* ------------------------------------------------------------- bounds
MaxSize == 3       \* size (leaves and nested records) of the records given to flatten_dict
MaxList == 2       \* elements per generated sequence

MaxCatalog == 4    \* summary records in the store's catalog

VARIABLES
    rec, flat, fpc,           \* flattening one Record: the input, the output, the position
    store,                    \* the storefront: its catalog and its page size
    with_variants,            \* args.variants
    pc,                       \* the script's position
    exc,                      \* the exception that escaped to the top of the run, if any
    sample_products, si,      \* page 1 as sampled, and the sampling loop's position
    sample_complete_products, sample_variants,
    product_fields, variant_fields, header,
    csv,                      \* the lines written to products_complete.csv
    page, total_products, total_variants,
    products, idx,            \* the page being processed and the for loop's position
    fetch_log,                \* the main loop's get_page calls: page number and outcome
    last                      \* the last item the main loop handled, and the state it started from

\* ------------------------------------------------------------- values
StrVal(s) == [t |-> "str", s |-> s]
IntVal(n) == [t |-> "int", n |-> n]
NoneVal == [t |-> "none"]
DictVal(kv) == [t |-> "dict", kv |-> kv]
ListVal(el) == [t |-> "list", el |-> el]

EmptyStr == StrVal(<< >>)

\* isinstance(v, dict), isinstance(v, list)
IsDict(v) == v.t = "dict"
IsList(v) == v.t = "list"

\* Python truthiness, as used by `if parent_key`, `if v`, `if not x`.
Truthy(v) ==
    CASE v.t = "none" -> FALSE
      [] v.t = "str" -> v.s # << >>
      [] v.t = "int" -> v.n # 0
      [] v.t = "dict" -> v.kv # << >>
      [] v.t = "list" -> v.el # << >>

\* The characters in use, in code-point order (str comparison in sorted()).
Alphabet == << "0", "1", "2", "3", "?", "A", "D", "N", "T", "_",
               "a", "b", "c", "d", "e", "h", "i", "k", "l", "m", "n", "o", "p",
               "r", "s", "t", "u", "v", "x", "y", "z", "|" >>

Ord(c) == CHOOSE i \in 1..Len(Alphabet) : Alphabet[i] = c

RECURSIVE StrLess(_, _)
\* a < b on Python strings: lexicographic by code point.
StrLess(a, b) ==
    IF a = << >> THEN b # << >>
    ELSE IF b = << >> THEN FALSE
    ELSE IF Head(a) = Head(b) THEN StrLess(Tail(a), Tail(b))
    ELSE Ord(Head(a)) < Ord(Head(b))

Digit(n) == << Alphabet[n + 1] >>

\* str(i) for the small non-negative integers in use.
IntStr(n) == IF n < 4 THEN Digit(n) ELSE Digit(n \div 4) \o Digit(n % 4)

\* str(v) of a scalar, as map(str, v) applies it.
PyStr(v) ==
    CASE v.t = "str" -> v.s
      [] v.t = "int" -> IntStr(v.n)
      [] v.t = "none" -> << "N", "o", "n", "e" >>

RECURSIVE JoinFrom(_, _)
JoinFrom(el, i) ==
    IF i > Len(el) THEN << >>
    ELSE IF i = Len(el) THEN PyStr(el[i])
    ELSE PyStr(el[i]) \o << "|" >> \o JoinFrom(el, i + 1)

\* '|'.join(map(str, v))
Join(el) == JoinFrom(el, 1)

\* ------------------------------------------------------------- dicts
Keys(kv) == { kv[i][1] : i \in 1..Len(kv) }

HasKey(d, k) == k \in Keys(d.kv)

\* d[k] for a key that is present
Lookup(d, k) == LET i == CHOOSE j \in 1..Len(d.kv) : d.kv[j][1] = k IN d.kv[i][2]

\* d.get(k, '')
Get(d, k) == IF HasKey(d, k) THEN Lookup(d, k) ELSE EmptyStr

RECURSIVE DictOfFrom(_, _, _)
DictOfFrom(items, i, acc) ==
    IF i > Len(items) THEN acc
    ELSE LET k == items[i][1]
             v == items[i][2]
         IN  IF k \in Keys(acc)
             THEN DictOfFrom(items, i + 1,
                    [j \in 1..Len(acc) |-> IF acc[j][1] = k THEN << k, v >> ELSE acc[j]])
             ELSE DictOfFrom(items, i + 1, Append(acc, << k, v >>))

\* dict(items): a later pair replaces the value of an earlier one with its key.
DictOf(items) == DictVal(DictOfFrom(items, 1, << >>))

\* ------------------------------------------------------------- flatten_dict
Sep == << "_" >>

\* new_key = f"{parent_key}{sep}{k}" if parent_key else k
NewKey(parent_key, k) == IF parent_key # << >> THEN parent_key \o Sep \o k ELSE k

\* f"{new_key}_{i}", i the 0-based position (model positions are 1-based)
IndexKey(new_key, i) == new_key \o << "_" >> \o IntStr(i - 1)

RECURSIVE flatten_dict(_, _)
RECURSIVE ListItems(_, _, _)
RECURSIVE DictItems(_, _, _)

\* One pass of the loop body for the pair (k, v): the pairs it adds to items.
PairItems(k, v, parent_key) ==
    LET new_key == NewKey(parent_key, k) IN
    IF IsDict(v) THEN flatten_dict(v, new_key).kv
    ELSE IF IsList(v) /\ Truthy(v) /\ IsDict(v.el[1]) THEN ListItems(v.el, new_key, 1)
    ELSE IF IsList(v) THEN << << new_key, IF Truthy(v) THEN StrVal(Join(v.el)) ELSE EmptyStr >> >>
    ELSE << << new_key, v >> >>

ListItems(el, new_key, i) ==
    IF i > Len(el) THEN << >>
    ELSE (IF IsDict(el[i])
          THEN flatten_dict(el[i], IndexKey(new_key, i)).kv
          ELSE << << IndexKey(new_key, i), el[i] >> >>)
         \o ListItems(el, new_key, i + 1)

DictItems(kv, parent_key, i) ==
    IF i > Len(kv) THEN << >>
    ELSE PairItems(kv[i][1], kv[i][2], parent_key) \o DictItems(kv, parent_key, i + 1)

flatten_dict(d, parent_key) == DictOf(DictItems(d.kv, parent_key, 1))

\* ------------------------------------------------------------- the Records given to flatten_dict
\* Key fragments: the empty key, a letter, a key that reads as a list index,
\* and a key that holds the separator.
KeyFrags == { << >>, << "a" >>, << "0" >>, << "a", "_", "0" >> }

Scalars == { StrVal(<< "x" >>), IntVal(1) }

\* The sequences of scalars: the prefixes of ['x', 1, None].
ScalarElems == << StrVal(<< "x" >>), IntVal(1), NoneVal >>
ScalarLists == { ListVal(SubSeq(ScalarElems, 1, n)) : n \in 0..MaxList }

LeafVals == Scalars \cup ScalarLists

RECURSIVE NumLeaves(_)
RECURSIVE SumLeaves(_, _)
\* The leaves of a value: a scalar, or a sequence of scalars taken as one leaf.
NumLeaves(v) ==
    IF IsDict(v) THEN SumLeaves([i \in 1..Len(v.kv) |-> v.kv[i][2]], 1)
    ELSE IF IsList(v) /\ Truthy(v) /\ IsDict(v.el[1]) THEN SumLeaves(v.el, 1)
    ELSE 1
SumLeaves(q, i) == IF i > Len(q) THEN 0 ELSE NumLeaves(q[i]) + SumLeaves(q, i + 1)

RECURSIVE Cost(_)
RECURSIVE Content(_, _)
RECURSIVE ElemsCost(_, _)
\* The size of a value: 1 for a leaf, 1 + its content for a nested record, and
\* 1 + the contents of its records (at least 1 each) for a sequence of records.
Cost(v) ==
    IF IsDict(v) THEN 1 + Content(v.kv, 1)
    ELSE IF IsList(v) /\ Truthy(v) /\ IsDict(v.el[1]) THEN 1 + ElemsCost(v.el, 1)
    ELSE 1
Content(kv, i) == IF i > Len(kv) THEN 0 ELSE Cost(kv[i][2]) + Content(kv, i + 1)
ElemCost(d) == IF Content(d.kv, 1) = 0 THEN 1 ELSE Content(d.kv, 1)
ElemsCost(el, i) == IF i > Len(el) THEN 0 ELSE ElemCost(el[i]) + ElemsCost(el, i + 1)

RECURSIVE GenDictSeqs(_, _, _)
\* The sequences of at most len records of size at most m together; T[c + 1]
\* is the set of key-value sequences of content at most c.
GenDictSeqs(T, m, len) ==
    IF len = 0 \/ m = 0 THEN { << >> }
    ELSE { << >> } \cup UNION { { << DictVal(kv) >> \o rest :
                                  rest \in GenDictSeqs(T, m - ElemCost(DictVal(kv)), len - 1) }
                               : kv \in T[m + 1] }

\* The values of size at most c (c >= 1).
GenVals(T, c) ==
    LeafVals
    \cup { DictVal(kv) : kv \in T[c] }
    \cup { ListVal(q) : q \in GenDictSeqs(T, c - 1, MaxList) \ { << >> } }

RECURSIVE GenTable(_)
\* GenTable(n)[c + 1], c in 0..n: the key-value sequences (distinct keys) of
\* content at most c.
GenTable(n) ==
    IF n = 0 THEN << { << >> } >>
    ELSE LET T == GenTable(n - 1)
             vals == GenVals(T, n)
         IN  Append(T, { << >> } \cup UNION { UNION { { << << k, v >> >> \o rest :
                                   rest \in { r \in T[n - Cost(v) + 1] : k \notin Keys(r) } }
                                 : v \in vals } : k \in KeyFrags })

\* The Records of size at most n.
Records(n) == { DictVal(kv) : kv \in GenTable(n)[n + 1] }

NotRun == DictVal(<< << << "?" >>, NoneVal >> >>)

\* ------------------------------------------------------------- strings of the script
K_handle == << "h", "a", "n", "d", "l", "e" >>
K_variants == << "v", "a", "r", "i", "a", "n", "t", "s" >>
VariantPrefix == << "v", "a", "r", "i", "a", "n", "t", "_" >>
LeadingColumns == << << "s", "c", "r", "a", "p", "e", "d", "_", "u", "r", "l" >>,
                     << "m", "e", "t", "a", "_", "t", "i", "t", "l", "e" >>,
                     << "m", "e", "t", "a", "_", "d", "e", "s", "c", "r", "i", "p", "t", "i", "o", "n" >> >>
base_url == << "s" >>
ProductsPath == << "/", "p", "r", "o", "d", "u", "c", "t", "s", "/" >>

K_id == << "i", "d" >>
K_title == << "t", "i", "t", "l", "e" >>
K_price == << "p", "r", "i", "c", "e" >>
K_sku == << "s", "k", "u" >>
K_extra == << "e", "x", "t", "r", "a" >>

\* ------------------------------------------------------------- the storefront
\* The complete records behind the handles a, b, c, d: two variants; no
\* 'variants' key and a field of its own; an empty variants list; a variants
\* list of scalars.
PA == DictVal(<< << K_id, IntVal(1) >>, << K_title, StrVal(<< "A" >>) >>,
                << K_variants, ListVal(<< DictVal(<< << K_id, IntVal(2) >>, << K_price, StrVal(<< "9" >>) >> >>),
                                          DictVal(<< << K_id, IntVal(3) >>, << K_sku, StrVal(<< "u" >>) >> >>) >>) >> >>)
PB == DictVal(<< << K_id, IntVal(1) >>, << K_extra, StrVal(<< "z" >>) >> >>)
PC == DictVal(<< << K_id, IntVal(1) >>, << K_variants, ListVal(<< >>) >> >>)
PD == DictVal(<< << K_id, IntVal(1) >>, << K_variants, ListVal(<< StrVal(<< "x" >>) >>) >> >>)

Handles == { << "a" >>, << "b" >>, << "c" >>, << "d" >> }

Detail(handle) ==
    CASE handle = << "a" >> -> PA
      [] handle = << "b" >> -> PB
      [] handle = << "c" >> -> PC
      [] handle = << "d" >> -> PD

\* A summary record of the listing: {'handle': h}, or one without 'handle'.
Summary(h) == DictVal(<< << K_handle, StrVal(h) >> >>)
NoHandle == DictVal(<< << K_id, IntVal(1) >> >>)
Summaries == { Summary(h) : h \in Handles } \cup { NoHandle }

Range(q) == { q[i] : i \in 1..Len(q) }

RECURSIVE DistinctSeqs(_, _)
\* The sequences of at most n distinct elements of S.
DistinctSeqs(S, n) ==
    IF n = 0 THEN { << >> }
    ELSE LET shorter == DistinctSeqs(S, n - 1) IN
         shorter \cup UNION { { Append(q, x) : x \in S \ Range(q) } :
                              q \in { r \in shorter : Len(r) = n - 1 } }

Min(a, b) == IF a < b THEN a ELSE b

\* What GET /products.json?page=n holds: the n-th slice of the catalog.
StorePage(st, n) ==
    SubSeq(st.catalog, (n - 1) * st.per_page + 1, Min(n * st.per_page, Len(st.catalog)))

\* ------------------------------------------------------------- field discovery
RECURSIVE SortStrs(_)
\* sorted(all_fields)
SortStrs(S) ==
    IF S = { } THEN << >>
    ELSE LET m == CHOOSE x \in S : \A y \in S \ { x } : StrLess(x, y)
         IN  << m >> \o SortStrs(S \ { m })

\* get_all_product_fields(products_sample)
get_all_product_fields(products_sample) ==
    SortStrs(UNION { Keys(flatten_dict(products_sample[i], << >>).kv) : i \in 1..Len(products_sample) })

\* get_all_variant_fields(variants_sample)
get_all_variant_fields(variants_sample) ==
    SortStrs(UNION { IF IsDict(variants_sample[i])
                     THEN Keys(flatten_dict(variants_sample[i], << >>).kv)
                     ELSE { } : i \in 1..Len(variants_sample) })

\* ------------------------------------------------------------- the fetches
\* get_page(page): the page's products, or [] when the fetch or the parse fails.
get_page(st, n) == { [ok |-> TRUE, products |-> StorePage(st, n)],
                     [ok |-> FALSE, products |-> << >>] }

PageTitle == StrVal(<< "T" >>)
PageDescription == StrVal(<< "D" >>)

\* get_tags_from_product(product_url): [title, description], or ['', ''] on failure.
get_tags_from_product == { [ok |-> TRUE, tags |-> << PageTitle, PageDescription >>],
                           [ok |-> FALSE, tags |-> << EmptyStr, EmptyStr >>] }

\* get_complete_product_data(product_url): the 'product' of the JSON, or None on failure.
get_complete_product_data(handle) == { [ok |-> TRUE, product |-> Detail(handle)],
                                       [ok |-> FALSE, product |-> NoneVal] }

\* product_url = base_url + '/products/' + product['handle']
ProductUrl(product) == StrVal(base_url \o ProductsPath \o Lookup(product, K_handle).s)

SampleSize == 3

\* The slice forgotten: every item of page 1 is sampled.
SampleSlice_WholePage(ps) == ps

\* sample_products[:3]
SampleSlice(ps) == SubSeq(ps, 1, Min(SampleSize, Len(ps)))

\* ------------------------------------------------------------- rows
\* for field in fields: row.append(flattened.get(field, ''))
FieldCells(fields, flattened) == [i \in 1..Len(fields) |-> Get(flattened, fields[i])]

\* The header: the leading columns, the product fields and, in variant mode,
\* the variant fields under the prefix variant_.
MakeHeader(wv, pf, vf) ==
    [i \in 1..Len(LeadingColumns) |-> StrVal(LeadingColumns[i])]
    \o [i \in 1..Len(pf) |-> StrVal(pf[i])]
    \o (IF wv THEN [i \in 1..Len(vf) |-> StrVal(VariantPrefix \o vf[i])] ELSE << >>)

\* One row per product.
ProductRow(url, tags, pf, flattened_product) ==
    << url, tags[1], tags[2] >> \o FieldCells(pf, flattened_product)

\* One row per variant.
VariantRow(url, tags, pf, vf, flattened_product, variant) ==
    << url, tags[1], tags[2] >> \o FieldCells(pf, flattened_product)
        \o FieldCells(vf, flatten_dict(variant, << >>))

RECURSIVE VariantRows(_, _, _, _, _, _, _)
\* for variant in complete_product['variants']: the rows written until the
\* loop ends, or until flatten_dict(variant) raises on a variant that is no dict.
VariantRows(url, tags, pf, vf, flattened_product, variants, i) ==
    IF i > Len(variants) THEN [rows |-> << >>, raised |-> FALSE]
    ELSE IF ~IsDict(variants[i]) THEN [rows |-> << >>, raised |-> TRUE]
    ELSE LET rest == VariantRows(url, tags, pf, vf, flattened_product, variants, i + 1)
         IN  [rows |-> << VariantRow(url, tags, pf, vf, flattened_product, variants[i]) >> \o rest.rows,
              raised |-> rest.raised]

\* if not complete_product: continue
Skipped(complete_product) == ~Truthy(complete_product)

\* if with_variants and 'variants' in complete_product
VariantBranch(wv, complete_product) == wv /\ HasKey(complete_product, K_variants)

\* The body of the for loop for a resolved item: the rows it writes, whether
\* an exception escapes it, and what it adds to the counters.
ResolvedResult(url, tags, complete_product, wv, pf, vf) ==
    LET flattened_product == flatten_dict(complete_product, << >>) IN
    IF VariantBranch(wv, complete_product)
    THEN LET r == VariantRows(url, tags, pf, vf, flattened_product,
                              Lookup(complete_product, K_variants).el, 1)
         IN  [rows |-> r.rows, raised |-> r.raised,
              products |-> IF r.raised THEN 0 ELSE 1, variants |-> Len(r.rows)]
    ELSE [rows |-> << ProductRow(url, tags, pf, flattened_product) >>, raised |-> FALSE,
          products |-> 1, variants |-> 0]

\* The continue placed after the counter: an unresolved item is counted.
ItemResult_CountsSkipped(url, tags, complete_product, wv, pf, vf) ==
    IF Skipped(complete_product)
    THEN [rows |-> << >>, raised |-> FALSE, products |-> 1, variants |-> 0]
    ELSE ResolvedResult(url, tags, complete_product, wv, pf, vf)

\* The body of the for loop once the two fetches are back.
ItemResult(url, tags, complete_product, wv, pf, vf) ==
    IF Skipped(complete_product)
    THEN [rows |-> << >>, raised |-> FALSE, products |-> 0, variants |-> 0]
    ELSE ResolvedResult(url, tags, complete_product, wv, pf, vf)

\* The increment forgotten: the same page is fetched again.
NextPageNumber_Retry(n) == n

\* page += 1
NextPageNumber(n) == n + 1

\* ------------------------------------------------------------- the run
NoItem == [set |-> FALSE]

Stores == { [catalog |-> c, per_page |-> n] :
                c \in DistinctSeqs(Summaries, MaxCatalog), n \in 1..MaxCatalog }

Init ==
    /\ rec = DictVal(<< >>) /\ flat = NotRun /\ fpc = "unused"
    /\ store \in Stores
    /\ with_variants \in BOOLEAN
    /\ pc = "sample_page"
    /\ exc = "none"
    /\ sample_products = << >> /\ si = 0
    /\ sample_complete_products = << >> /\ sample_variants = << >>
    /\ product_fields = << >> /\ variant_fields = << >> /\ header = << >>
    /\ csv = << >>
    /\ page = 0 /\ total_products = 0 /\ total_variants = 0
    /\ products = << >> /\ idx = 0
    /\ fetch_log = << >>
    /\ last = NoItem

flatvars == << rec, flat, fpc >>
envvars == << store, with_variants >>
samplevars == << sample_products, si, sample_complete_products, sample_variants >>
schemavars == << product_fields, variant_fields, header >>
loopvars == << page, total_products, total_variants, products, idx, fetch_log, last >>

\* sample_products = get_page(1); if not sample_products: exit(1)
SamplePage ==
    /\ pc = "sample_page"
    /\ \E r \in get_page(store, 1) :
        /\ sample_products' = r.products
        /\ pc' = IF r.products = << >> THEN "exit1" ELSE "sampling"
    /\ si' = 1
    /\ UNCHANGED << flatvars, envvars, exc, sample_complete_products, sample_variants,
                    schemavars, csv, loopvars >>

\* One pass of: for i, product in enumerate(sample_products[:3])
SampleItem ==
    /\ pc = "sampling"
    /\ si <= Len(SampleSlice(sample_products))
    /\ LET product == sample_products[si] IN
       IF ~HasKey(product, K_handle)
       THEN /\ pc' = "crashed" /\ exc' = "KeyError"
            /\ UNCHANGED << si, sample_complete_products, sample_variants >>
       ELSE \E r \in get_complete_product_data(Lookup(product, K_handle).s) :
            LET complete_product == r.product IN
            /\ sample_complete_products' =
                  IF Truthy(complete_product)
                  THEN Append(sample_complete_products, complete_product)
                  ELSE sample_complete_products
            /\ sample_variants' =
                  IF /\ Truthy(complete_product)
                     /\ HasKey(complete_product, K_variants)
                     /\ Truthy(Lookup(complete_product, K_variants))
                  THEN sample_variants \o Lookup(complete_product, K_variants).el
                  ELSE sample_variants
            /\ si' = si + 1
            /\ UNCHANGED << pc, exc >>
    /\ UNCHANGED << flatvars, envvars, sample_products, schemavars, csv, loopvars >>

\* The field discovery, the header and the counters.
WriteHeader ==
    /\ pc = "sampling"
    /\ si > Len(SampleSlice(sample_products))
    /\ product_fields' = get_all_product_fields(sample_complete_products)
    /\ variant_fields' = IF with_variants THEN get_all_variant_fields(sample_variants) ELSE << >>
    /\ header' = MakeHeader(with_variants, product_fields', variant_fields')
    /\ csv' = Append(csv, header')
    /\ page' = 1 /\ total_products' = 0 /\ total_variants' = 0
    /\ pc' = "first_page"
    /\ UNCHANGED << flatvars, envvars, exc, samplevars, products, idx, fetch_log, last >>

\* products = get_page(n), then the test of: while products
Fetch(n) ==
    \E r \in get_page(store, n) :
        /\ products' = r.products
        /\ fetch_log' = Append(fetch_log, [page |-> n, ok |-> r.ok, count |-> Len(r.products)])
        /\ pc' = IF r.products = << >> THEN "done" ELSE "items"
        /\ idx' = 1

\* products = get_page(page), before the loop
FirstPage ==
    /\ pc = "first_page"
    /\ Fetch(page)
    /\ UNCHANGED << flatvars, envvars, exc, samplevars, schemavars, csv,
                    page, total_products, total_variants, last >>

\* page += 1; products = get_page(page), at the end of the while body
NextPage ==
    /\ pc = "next_page"
    /\ page' = NextPageNumber(page)
    /\ Fetch(page')
    /\ UNCHANGED << flatvars, envvars, exc, samplevars, schemavars, csv,
                    total_products, total_variants, last >>

\* One pass of: for product in products
ProcessItem ==
    /\ pc = "items"
    /\ LET product == products[idx] IN
       IF ~HasKey(product, K_handle)
       THEN /\ pc' = "crashed" /\ exc' = "KeyError"
            /\ UNCHANGED << csv, total_products, total_variants, idx, last >>
       ELSE \E t \in get_tags_from_product, r \in get_complete_product_data(Lookup(product, K_handle).s) :
            LET res == ItemResult(ProductUrl(product), t.tags, r.product,
                                  with_variants, product_fields, variant_fields)
            IN  /\ csv' = csv \o res.rows
                /\ total_variants' = total_variants + res.variants
                /\ total_products' = total_products + res.products
                /\ last' = [set |-> TRUE, html_ok |-> t.ok, detail_ok |-> r.ok,
                            complete_product |-> r.product, page |-> page, idx |-> idx,
                            rows |-> Len(csv), total_products |-> total_products,
                            total_variants |-> total_variants]
                /\ IF res.raised
                   THEN /\ pc' = "crashed" /\ exc' = "AttributeError" /\ UNCHANGED idx
                   ELSE /\ exc' = exc
                        /\ IF idx < Len(products)
                           THEN idx' = idx + 1 /\ pc' = pc
                           ELSE idx' = idx /\ pc' = "next_page"
    /\ UNCHANGED << flatvars, envvars, samplevars, schemavars, page, products, fetch_log >>

vars == << rec, flat, fpc, store, with_variants, pc, exc, sample_products, si,
           sample_complete_products, sample_variants, product_fields, variant_fields,
           header, csv, page, total_products, total_variants, products, idx,
           fetch_log, last >>

Next ==
    \/ SamplePage
    \/ SampleItem
    \/ WriteHeader
    \/ FirstPage
    \/ NextPage
    \/ ProcessItem

Spec == Init /\ [][Next]_vars

\* ------------------------------------------------------------- flattening one Record
FlatInit ==
    /\ rec \in Records(MaxSize)
    /\ flat = NotRun
    /\ fpc = "input"
    /\ store = [catalog |-> << >>, per_page |-> 1]
    /\ with_variants = FALSE
    /\ pc = "unused"
    /\ exc = "none"
    /\ sample_products = << >> /\ si = 0
    /\ sample_complete_products = << >> /\ sample_variants = << >>
    /\ product_fields = << >> /\ variant_fields = << >> /\ header = << >>
    /\ csv = << >>
    /\ page = 0 /\ total_products = 0 /\ total_variants = 0
    /\ products = << >> /\ idx = 0
    /\ fetch_log = << >>
    /\ last = NoItem

\* flattened = flatten_dict(product)
Flatten ==
    /\ fpc = "input"
    /\ flat' = flatten_dict(rec, << >>)
    /\ fpc' = "flattened"
    /\ UNCHANGED << rec, envvars, pc, exc, samplevars, schemavars, csv, loopvars >>

FlatNext == Flatten

FlatSpec == FlatInit /\ [][FlatNext]_vars

\* ------------------------------------------------------------- properties of the run
MainLoop == { "first_page", "items", "next_page", "done" }

\* The rows the last item wrote.
LastRows == SubSeq(csv, last.rows + 1, Len(csv))

Resolved == last.set /\ last.detail_ok /\ Truthy(last.complete_product)

\* C1: every data row written has exactly len(header) values.
C1_RowsMatchHeader ==
    \A i \in 2..Len(csv) : Len(csv[i]) = Len(header)

\* C2: the main loop's fetches are of pages 1, 2, 3, ... in this order, each
\* once; a failed fetch counts as an empty page; only the last fetch can be
\* empty, and the run is at its normal completion exactly when it is.
C2_PaginationStopsAtFirstEmptyPage ==
    /\ \A i \in 1..Len(fetch_log) :
          /\ fetch_log[i].page = i
          /\ (~fetch_log[i].ok => fetch_log[i].count = 0)
          /\ (i < Len(fetch_log) => fetch_log[i].count > 0)
    /\ (pc = "done") = (fetch_log # << >> /\ fetch_log[Len(fetch_log)].count = 0)
    /\ (pc = "done" => exc = "none")

\* A failed fetch of page 2 or later ended the run normally, with the next
\* page of the store not empty.
C2_Witness ==
    /\ pc = "done"
    /\ Len(fetch_log) >= 2
    /\ ~fetch_log[Len(fetch_log)].ok
    /\ StorePage(store, page + 1) # << >>

\* C3: in variant mode a resolved product with a variants list of N entries
\* has written N rows, equal in the leading and the product columns.
C3_OneRowPerVariant ==
    (Resolved /\ with_variants /\ HasKey(last.complete_product, K_variants)) =>
        LET N == Len(Lookup(last.complete_product, K_variants).el)
            w == Len(LeadingColumns) + Len(product_fields)
        IN  /\ Len(LastRows) = N
            /\ \A i, j \in 1..Len(LastRows) :
                  /\ Len(LastRows[i]) >= w
                  /\ SubSeq(LastRows[i], 1, w) = SubSeq(LastRows[j], 1, w)

\* C4: the step that handles an item whose detail fetch failed writes no row,
\* leaves both counters alone, raises nothing, and moves to the next item of
\* the page or, after the last one, to the fetch of the next page.
C4_FailedDetailSkipsItem ==
    [][(last' # last /\ ~last'.detail_ok) =>
          /\ csv' = csv
          /\ total_products' = total_products
          /\ total_variants' = total_variants
          /\ exc' = "none"
          /\ \/ idx < Len(products) /\ idx' = idx + 1 /\ pc' = "items"
             \/ idx = Len(products) /\ pc' = "next_page"]_vars

\* A run that skipped an item, wrote rows of other items and completed.
C4_Witness ==
    /\ last.set /\ ~last.detail_ok
    /\ Len(csv) = last.rows
    /\ total_products > 0
    /\ page > 1
    /\ pc = "done"

\* C5: the header is never written with an empty sample of complete records.
C5_EmptySampleAborts ==
    csv # << >> => sample_complete_products # << >>

\* C6: no exception escapes to the top of the run.
C6_NoExceptionEscapes ==
    pc # "crashed" /\ exc = "none"

\* C9: an item whose HTML fetch failed and whose detail fetch succeeded is
\* counted as a product, its rows carry the empty string as meta_title and
\* meta_description, and outside the variant branch it has one row.
C9_HtmlFailureKeepsRow ==
    (Resolved /\ ~last.html_ok) =>
        /\ total_products = last.total_products + 1
        /\ \A i \in 1..Len(LastRows) : LastRows[i][2] = EmptyStr /\ LastRows[i][3] = EmptyStr
        /\ (~VariantBranch(with_variants, last.complete_product) => Len(LastRows) = 1)

\* The sample is of the first three items of page 1.
SampleOfFirstThree ==
    /\ Len(sample_complete_products) <= SampleSize
    /\ \A i \in 1..Len(sample_complete_products) :
          \E j \in 1..Min(SampleSize, Len(sample_products)) :
              /\ HasKey(sample_products[j], K_handle)
              /\ sample_complete_products[i] = Detail(Lookup(sample_products[j], K_handle).s)

\* The schema is the one the sample gives, the header is the first line of
\* the file and the only header line, and the value of a field seen only
\* later is in no row.
SchemaFixed ==
    IF pc \in MainLoop \/ csv # << >>
    THEN /\ SampleOfFirstThree
         /\ product_fields = get_all_product_fields(sample_complete_products)
         /\ variant_fields = (IF with_variants THEN get_all_variant_fields(sample_variants) ELSE << >>)
         /\ header = MakeHeader(with_variants, product_fields, variant_fields)
         /\ csv # << >> /\ csv[1] = header
         /\ \A i \in 2..Len(csv) : csv[i][1] # header[1]
         /\ (K_extra \notin Range(product_fields) =>
                \A i \in 2..Len(csv) : Lookup(PB, K_extra) \notin Range(csv[i]))
    ELSE csv = << >> /\ header = << >>

SchemaUnchanged ==
    /\ product_fields' = product_fields
    /\ variant_fields' = variant_fields
    /\ header' = header
    /\ csv'[1] = csv[1]

\* C10: the column sets and the header come from the sample of the first
\* three items of page 1, the header is written once and first, and no step
\* of the streaming loop changes them.
C10_SchemaFixedAfterSampling ==
    []SchemaFixed /\ [][(pc \in MainLoop) => SchemaUnchanged]_vars

\* A row of the product with the field 'extra' was written under a schema
\* without it, from a page 1 of more than three items.
C10_Witness ==
    /\ Resolved /\ last.complete_product = PB
    /\ Len(LastRows) = 1
    /\ K_extra \notin Range(product_fields)
    /\ product_fields # << >>
    /\ Len(sample_products) > SampleSize

\* ------------------------------------------------------------- the key-naming scheme
RECURSIVE JoinPath(_)
\* The fragments of a path joined with the separator.
JoinPath(path) ==
    IF Len(path) = 1 THEN path[1] ELSE path[1] \o Sep \o JoinPath(Tail(path))

IsRecordSeq(v) == IsList(v) /\ v.el # << >> /\ \A i \in 1..Len(v.el) : IsDict(v.el[i])

RECURSIVE SchemePairs(_, _)
\* The <<key, value>> pairs the scheme gives the value v found at path: a_<child>
\* for a nested record, k_<index>_<child> for a sequence of records, the
\* '|'-joined string for a sequence of scalars, the scalar itself otherwise.
SchemePairs(v, path) ==
    IF IsDict(v)
    THEN UNION { SchemePairs(v.kv[i][2], Append(path, v.kv[i][1])) : i \in 1..Len(v.kv) }
    ELSE IF IsRecordSeq(v)
    THEN UNION { SchemePairs(v.el[i], Append(path, IntStr(i - 1))) : i \in 1..Len(v.el) }
    ELSE IF IsList(v) THEN { << JoinPath(path), StrVal(Join(v.el)) >> }
    ELSE { << JoinPath(path), v >> }

RECURSIVE NoSepIn(_)
\* No key fragment of v, at any level, holds the separator.
NoSepIn(v) ==
    IF IsDict(v)
    THEN \A i \in 1..Len(v.kv) :
            /\ \A j \in 1..Len(v.kv[i][1]) : v.kv[i][1][j] # "_"
            /\ NoSepIn(v.kv[i][2])
    ELSE IF IsList(v) THEN \A i \in 1..Len(v.el) : NoSepIn(v.el[i])
    ELSE TRUE

Pairs(d) == { d.kv[i] : i \in 1..Len(d.kv) }

\* C7: for a Record whose key fragments hold no separator, flatten_dict gives
\* every leaf a key of its own: the output has as many keys as the Record has
\* leaves, and no two leaves share a key.
C7_DistinctLeavesDistinctKeys ==
    (fpc = "flattened" /\ NoSepIn(rec)) => Cardinality(Keys(flat.kv)) = NumLeaves(rec)

\* C8: the keys of the output are the keys of the naming scheme (a_<child>,
\* k_<index>_<child>, k for a sequence of scalars or a scalar), and a key the
\* scheme gives to one leaf only carries that leaf's value (the joined string
\* for a sequence of scalars).
C8_KeyNamingScheme ==
    fpc = "flattened" =>
        LET want == SchemePairs(rec, << >>) IN
        /\ Keys(flat.kv) = { p[1] : p \in want }
        /\ \A p \in want : (\A q \in want : q[1] = p[1] => q = p) => p \in Pairs(flat)

====
